---- MODULE Spec2Model ----
(***************************************************************************)
(* LLM Council backend: the OpenRouter gateway (query_model), the fan-out  *)
(* dispatcher (query_models_parallel) and the two message handlers of the  *)
(* FastAPI application (send_message, send_message_stream).                *)
(***************************************************************************)
EXTENDS Integers, Sequences, FiniteSets, TLC

VARIABLES
    \* ---- fan-out (openrouter.py, query_models_parallel) ----
    models,         \* the `models` argument of the running fan-out
    tasks,          \* tasks[i]: position of the i-th query_model coroutine
    own,            \* own[i]: what the provider did to call i
    ret,            \* ret[i]: the value call i returned (set once, at its end)
    writes,         \* writes[i]: how many times call i's result was set
    order,          \* indices of the calls in completion order
    gather,         \* position of `await asyncio.gather(*tasks)`
    responses,      \* the list gather returned
    success_count,  \* the dispatcher's count of non-None responses
    result,         \* the mapping query_models_parallel returned
    \* ---- one request (main.py) ----
    mode,           \* "none" | "blocking" | "stream": the endpoint called
    is_first_message,
    pc,             \* position of the handler
    events,         \* the SSE events yielded so far, in order
    messages,       \* the stored conversation's messages (roles)
    stored_title,   \* titles written by update_conversation_title, in order
    title_task,     \* position of the title call
    title_joined,   \* the handler has awaited the title call
    stage,          \* number of stages whose result the handler holds
    stage1_results, stage2_results, stage3_result,
    chairman,       \* position of the Stage 3 (chairman) gateway call
    failed_at,      \* the step that raised, "none" while nothing raised
    aggregate_rankings, \* what calculate_aggregate_rankings returned
    stage3_args,    \* the arguments stage3_synthesize_final was called with
    \* ---- concurrent requests to one conversation (main.py) ----
    req             \* req[r]: mode, position and is_first_message of request r

fanVars == <<models, tasks, own, ret, writes, order, gather, responses,
             success_count, result>>
runVars == <<mode, is_first_message, pc, events, messages, stored_title,
             title_task, title_joined, stage, stage1_results,
             stage2_results, stage3_result, chairman, failed_at,
             aggregate_rankings, stage3_args, req>>
vars == <<fanVars, runVars>>

-----------------------------------------------------------------------------
(* Bounds of the model *)

\* longest `models` list handed to query_models_parallel
MaxModels == 2

\* model identifiers the lists are drawn from
ModelIds == {"m1", "m2", "m3"}

-----------------------------------------------------------------------------
(* Python values *)

\* Python's None, as a message content
PyNone == "<None>"

\* query_model's `return None`
None == [tag |-> "None", content |-> PyNone]

\* query_model's `return {"content": content, ...}`
Dict(c) == [tag |-> "dict", content |-> c]

\* an exception leaving a coroutine
Raise == [tag |-> "raise", content |-> PyNone]

\* a call that has not ended yet
NoRet == [tag |-> "pending", content |-> PyNone]

-----------------------------------------------------------------------------
(* The provider, as seen through httpx *)

\* status codes the provider may answer with
Statuses == {200, 302, 400, 500}

\* response bodies: not JSON; JSON without "choices"; "choices": []; a choice
\* without "message"; a message without "content"; content ""; content text
Bodies == {"unparseable", "no_choices", "empty_choices", "no_message",
           "no_content", "empty_content", "text"}

Response(s, b) == [kind |-> "response", status |-> s, body |-> b]
TransportError == [kind |-> "transport_error", status |-> 0, body |-> "none"]
Timeout == [kind |-> "timeout", status |-> 0, body |-> "none"]
NoOutcome == [kind |-> "none", status |-> 0, body |-> "none"]

ProviderOutcomes ==
    {TransportError, Timeout} \cup {Response(s, b) : s \in Statuses, b \in Bodies}

\* the outcomes the fan-out and the handlers are explored with
FanOutOutcomes ==
    {Timeout, Response(500, "unparseable"), Response(200, "unparseable"),
     Response(200, "no_content"), Response(200, "empty_content"),
     Response(200, "text")}

\* `response.status_code >= 400`
HttpErrorStatus == 400

-----------------------------------------------------------------------------
(* query_model *)

\* message.get("content") of choices[0].get("message", {})
MessageContent(b) ==
    CASE b = "text" -> "answer"
      [] b = "empty_content" -> ""
      [] OTHER -> PyNone

\* `if not choices`: data.get("choices", []) is absent or empty
NoChoices(b) == b \in {"no_choices", "empty_choices"}

\* the body of query_model's try block
query_model_try(o) ==
    IF o.kind # "response" THEN Raise                 \* client.post raises
    ELSE IF o.status >= HttpErrorStatus THEN None
    ELSE IF o.body = "unparseable" THEN Raise         \* response.json() raises
    ELSE IF NoChoices(o.body) THEN None
    ELSE Dict(MessageContent(o.body))

\* a query_model whose except clause is missing
query_model_unguarded(o) == query_model_try(o)

\* a query_model that counts an empty answer as a failure
query_model_truthy(o) ==
    LET r == query_model_try(o)
    IN  IF r.tag = "raise" \/ (r.tag = "dict" /\ r.content = "") THEN None
        ELSE r

\* query_model: the try block, and `except Exception: return None`
query_model(o) ==
    LET r == query_model_try(o)
    IN  IF r.tag = "raise" THEN None ELSE r

-----------------------------------------------------------------------------
(* query_models_parallel *)

\* every list of at most MaxModels model identifiers
RECURSIVE ListsUpTo(_)
ListsUpTo(n) ==
    IF n = 0 THEN {<<>>}
    ELSE LET shorter == ListsUpTo(n - 1)
         IN  shorter \cup {Append(l, m) : l \in {x \in shorter : Len(x) = n - 1},
                                          m \in ModelIds}

ModelLists == ListsUpTo(MaxModels)

Idx == 1..Len(models)

\* d[k] = v on a Python dict: an existing key keeps its place
DictSet(d, k, v) ==
    IF \E j \in 1..Len(d) : d[j].key = k
    THEN [j \in 1..Len(d) |-> IF d[j].key = k THEN [key |-> k, value |-> v] ELSE d[j]]
    ELSE Append(d, [key |-> k, value |-> v])

\* {model: response for model, response in zip(models, responses)}
RECURSIVE ZipDict(_, _, _)
ZipDict(ks, vs, n) ==
    IF n = 0 THEN <<>>
    ELSE DictSet(ZipDict(ks, vs, n - 1), ks[n], vs[n])

Min(a, b) == IF a < b THEN a ELSE b

\* a mapping filled as the calls complete
DictByCompletion(ks, vs) ==
    ZipDict([k \in 1..Len(order) |-> ks[order[k]]],
            [k \in 1..Len(order) |-> vs[order[k]]], Len(order))

DictOfZip(ks, vs) == ZipDict(ks, vs, Min(Len(ks), Len(vs)))

Keys(d) == [j \in 1..Len(d) |-> d[j].key]

\* the fan-out variables before a call and after its result was consumed
FanIdle ==
    /\ models = <<>>
    /\ tasks = <<>>
    /\ own = <<>>
    /\ ret = <<>>
    /\ writes = <<>>
    /\ order = <<>>
    /\ gather = "idle"
    /\ responses = <<>>
    /\ success_count = 0
    /\ result = <<>>

\* tasks = [query_model(model, messages) for model in models], handed to gather
QmpCall(ms) ==
    /\ gather = "idle"
    /\ models' = ms
    /\ tasks' = [i \in 1..Len(ms) |-> "created"]
    /\ own' = [i \in 1..Len(ms) |-> NoOutcome]
    /\ ret' = [i \in 1..Len(ms) |-> NoRet]
    /\ writes' = [i \in 1..Len(ms) |-> 0]
    /\ order' = <<>>
    /\ gather' = "waiting"
    /\ responses' = <<>>
    /\ success_count' = 0
    /\ result' = <<>>

\* call i runs up to `await client.post(...)`
QueryModelStart(i) ==
    /\ i \in Idx
    /\ tasks[i] = "created"
    /\ tasks' = [tasks EXCEPT ![i] = "pending"]
    /\ UNCHANGED <<models, own, ret, writes, order, gather, responses,
                   success_count, result>>
    /\ UNCHANGED runVars

\* the provider answers call i with o (or the timeout elapses) and the call ends
QueryModelDone(i, o) ==
    /\ i \in Idx
    /\ tasks[i] = "pending"
    /\ LET r == query_model(o)
       IN  /\ tasks' = [tasks EXCEPT ![i] = IF r.tag = "raise" THEN "raised"
                                             ELSE "returned"]
           /\ ret' = [ret EXCEPT ![i] = r]
    /\ own' = [own EXCEPT ![i] = o]
    /\ writes' = [writes EXCEPT ![i] = @ + 1]
    /\ order' = Append(order, i)
    /\ UNCHANGED <<models, gather, responses, success_count, result>>
    /\ UNCHANGED runVars

\* a gather that wakes its caller as soon as one call has ended
GatherReadyFirstCompleted ==
    \/ Idx = {}
    \/ \E i \in Idx : tasks[i] \in {"returned", "raised"}

\* a gather that waits until every call has produced an answer
GatherReadyAllAnswered ==
    \A i \in Idx : tasks[i] = "returned" /\ ret[i] # None

\* asyncio.gather wakes its caller when every call has ended, or when one raised
GatherReady ==
    \/ \A i \in Idx : tasks[i] = "returned"
    \/ \E i \in Idx : tasks[i] = "raised"

\* a gather that lists the results as the calls completed
GatherResultsByCompletion ==
    [k \in 1..Len(order) |-> ret[order[k]]]

\* asyncio.gather lists the results in the order of its arguments
GatherResults ==
    [i \in Idx |-> ret[i]]

\* sum(1 for response in responses if response is not None)
SuccessCount(rs) == Cardinality({i \in 1..Len(rs) : rs[i] # None})

\* `responses = await asyncio.gather(*tasks)` resumes; the mapping is returned
GatherDone ==
    /\ gather = "waiting"
    /\ GatherReady
    /\ IF \E i \in Idx : tasks[i] = "raised"
       THEN /\ gather' = "raised"
            /\ UNCHANGED <<responses, success_count, result>>
       ELSE /\ gather' = "returned"
            /\ responses' = GatherResults
            /\ success_count' = SuccessCount(GatherResults)
            /\ result' = DictOfZip(models, GatherResults)
    /\ UNCHANGED <<models, tasks, own, ret, writes, order>>
    /\ UNCHANGED runVars

-----------------------------------------------------------------------------
(* The three stages and the title call, as the handlers of main.py use them *)

\* the council (two of the configured members) and what a conversation holds
\* when a request arrives
COUNCIL_MODELS == <<"m1", "m2">>

\* storage.get_conversation found nothing
NoConversation == <<PyNone>>

StoredConversations == {NoConversation, <<>>, <<"user", "assistant">>}

\* calculate_aggregate_rankings: one entry per council member, with the number
\* of judges whose ranking could be used; empty when Stage 2 was skipped
calculate_aggregate_rankings(rs) ==
    IF rs = <<>> THEN <<>>
    ELSE [j \in 1..Len(COUNCIL_MODELS) |->
             [model |-> COUNCIL_MODELS[j],
              vote_count |-> Cardinality({k \in 1..Len(rs) :
                                           rs[k].value.tag = "dict"})]]

\* stage3_synthesize_final(request.content, stage1_results, stage2_results)
Stage3Args(s1, s2) == [question |-> "content", stage1 |-> s1, stage2 |-> s2]

\* Stage 3 has not been called
NoArgs == [question |-> PyNone, stage1 |-> <<>>, stage2 |-> <<>>]

\* a raise inside the handler: the exception is in flight
RaiseAt(where) ==
    /\ pc' = "except"
    /\ failed_at' = where

\* answers of Stage 1 that can be ranked: succeeded, with content
Usable(rs) ==
    {j \in 1..Len(rs) : rs[j].value.tag = "dict" /\ rs[j].value.content \notin {PyNone, ""}}

\* stage1_collect_responses dispatches the question to the council
Stage1Call ==
    /\ pc = "s1_call"
    /\ QmpCall(COUNCIL_MODELS)
    /\ pc' = "s1_wait"
    /\ UNCHANGED <<mode, is_first_message, events, messages, stored_title,
                   title_task, title_joined, stage, stage1_results,
                   stage2_results, stage3_result, chairman, failed_at>>
    /\ UNCHANGED <<aggregate_rankings, stage3_args, req>>

\* stage1_collect_responses returns the council's answers
Stage1Return ==
    /\ pc = "s1_wait"
    /\ gather = "returned"
    /\ stage1_results' = result
    /\ stage' = 1
    /\ pc' = "s1_ret"
    /\ models' = <<>> /\ tasks' = <<>> /\ own' = <<>> /\ ret' = <<>>
    /\ writes' = <<>> /\ order' = <<>> /\ gather' = "idle"
    /\ responses' = <<>> /\ success_count' = 0 /\ result' = <<>>
    /\ UNCHANGED <<mode, is_first_message, events, messages, stored_title,
                   title_task, title_joined, stage2_results, stage3_result,
                   chairman, failed_at>>
    /\ UNCHANGED <<aggregate_rankings, stage3_args, req>>

\* stage2_collect_rankings dispatches the ranking prompt to the council
Stage2Call ==
    /\ pc = "s2_call"
    /\ Cardinality(Usable(stage1_results)) >= 2
    /\ QmpCall(COUNCIL_MODELS)
    /\ pc' = "s2_wait"
    /\ UNCHANGED <<mode, is_first_message, events, messages, stored_title,
                   title_task, title_joined, stage, stage1_results,
                   stage2_results, stage3_result, chairman, failed_at>>
    /\ UNCHANGED <<aggregate_rankings, stage3_args, req>>

\* fewer than two answers to rank: the judging round is skipped
Stage2Skip ==
    /\ pc = "s2_call"
    /\ Cardinality(Usable(stage1_results)) < 2
    /\ stage2_results' = <<>>
    /\ stage' = 2
    /\ pc' = "s2_ret"
    /\ UNCHANGED fanVars
    /\ UNCHANGED <<mode, is_first_message, events, messages, stored_title,
                   title_task, title_joined, stage1_results, stage3_result,
                   chairman, failed_at>>
    /\ UNCHANGED <<aggregate_rankings, stage3_args, req>>

\* stage2_collect_rankings returns the rankings
Stage2Return ==
    /\ pc = "s2_wait"
    /\ gather = "returned"
    /\ stage2_results' = result
    /\ stage' = 2
    /\ pc' = "s2_ret"
    /\ models' = <<>> /\ tasks' = <<>> /\ own' = <<>> /\ ret' = <<>>
    /\ writes' = <<>> /\ order' = <<>> /\ gather' = "idle"
    /\ responses' = <<>> /\ success_count' = 0 /\ result' = <<>>
    /\ UNCHANGED <<mode, is_first_message, events, messages, stored_title,
                   title_task, title_joined, stage1_results, stage3_result,
                   chairman, failed_at>>
    /\ UNCHANGED <<aggregate_rankings, stage3_args, req>>

\* stage3_synthesize_final queries the chairman
Stage3Call ==
    /\ pc = "s3_call"
    /\ chairman' = "pending"
    /\ pc' = "s3_wait"
    /\ UNCHANGED fanVars
    /\ UNCHANGED <<mode, is_first_message, events, messages, stored_title,
                   title_task, title_joined, stage, stage1_results,
                   stage2_results, stage3_result, failed_at>>
    /\ UNCHANGED <<aggregate_rankings, stage3_args, req>>

\* the chairman's call ends; a StageThreeResult is returned either way
Stage3Return(o) ==
    /\ pc = "s3_wait"
    /\ chairman = "pending"
    /\ chairman' = "returned"
    /\ stage3_result' = IF query_model(o) = None THEN "unavailable" ELSE "synthesis"
    /\ stage' = 3
    /\ pc' = "s3_ret"
    /\ UNCHANGED fanVars
    /\ UNCHANGED <<mode, is_first_message, events, messages, stored_title,
                   title_task, title_joined, stage1_results, stage2_results,
                   failed_at>>
    /\ UNCHANGED <<aggregate_rankings, stage3_args, req>>

\* a stage raises: before it dispatches, or because its gather raised
StageRaises ==
    /\ \/ pc \in {"s1_call", "s2_call", "s3_call"}
       \/ pc \in {"s1_wait", "s2_wait"} /\ gather = "raised"
    /\ RaiseAt(IF pc \in {"s1_call", "s1_wait"} THEN "stage1"
               ELSE IF pc \in {"s2_call", "s2_wait"} THEN "stage2" ELSE "stage3")
    /\ UNCHANGED fanVars
    /\ UNCHANGED <<mode, is_first_message, events, messages, stored_title,
                   title_task, title_joined, stage, stage1_results,
                   stage2_results, stage3_result, chairman>>
    /\ UNCHANGED <<aggregate_rankings, stage3_args, req>>

\* the title call issues its gateway call
TitleStart ==
    /\ title_task = "created"
    /\ title_task' = "pending"
    /\ UNCHANGED fanVars
    /\ UNCHANGED <<mode, is_first_message, pc, events, messages, stored_title,
                   title_joined, stage, stage1_results, stage2_results,
                   stage3_result, chairman, failed_at>>
    /\ UNCHANGED <<aggregate_rankings, stage3_args, req>>

\* generate_conversation_title returns a title
TitleReturns ==
    /\ title_task = "pending"
    /\ title_task' = "returned"
    /\ UNCHANGED fanVars
    /\ UNCHANGED <<mode, is_first_message, pc, events, messages, stored_title,
                   title_joined, stage, stage1_results, stage2_results,
                   stage3_result, chairman, failed_at>>
    /\ UNCHANGED <<aggregate_rankings, stage3_args, req>>

\* generate_conversation_title raises
TitleRaises ==
    /\ title_task = "pending"
    /\ title_task' = "raised"
    /\ UNCHANGED fanVars
    /\ UNCHANGED <<mode, is_first_message, pc, events, messages, stored_title,
                   title_joined, stage, stage1_results, stage2_results,
                   stage3_result, chairman, failed_at>>
    /\ UNCHANGED <<aggregate_rankings, stage3_args, req>>

-----------------------------------------------------------------------------
(* send_message_stream and its event_generator *)

\* the events of a run in which nothing raises
SuccessEvents(first) ==
    <<"stage1_start", "stage1_complete", "stage2_start", "stage2_complete",
      "stage3_start", "stage3_complete">>
    \o (IF first THEN <<"title_complete">> ELSE <<>>)
    \o <<"complete">>

\* the handler up to `return StreamingResponse(event_generator(), ...)`
SendMessageStream ==
    /\ pc = "idle"
    /\ mode' = "stream"
    /\ IF messages = NoConversation
       THEN pc' = "http_404" /\ UNCHANGED is_first_message
       ELSE pc' = "gen_start" /\ is_first_message' = (Len(messages) = 0)
    /\ UNCHANGED fanVars
    /\ UNCHANGED <<events, messages, stored_title, title_task, title_joined,
                   stage, stage1_results, stage2_results, stage3_result,
                   chairman, failed_at>>
    /\ UNCHANGED <<aggregate_rankings, stage3_args, req>>

\* a generator that creates no title task
GenStartNoTitleTask ==
    /\ mode = "stream"
    /\ pc = "gen_start"
    /\ messages' = Append(messages, "user")
    /\ title_task' = "none"
    /\ events' = Append(events, "stage1_start")
    /\ pc' = "s1_call"
    /\ UNCHANGED fanVars
    /\ UNCHANGED <<mode, is_first_message, stored_title, title_joined, stage,
                   stage1_results, stage2_results, stage3_result, chairman,
                   failed_at>>
    /\ UNCHANGED <<aggregate_rankings, stage3_args, req>>

\* event_generator from its start to `yield stage1_start`
GenStart ==
    /\ mode = "stream"
    /\ pc = "gen_start"
    /\ messages' = Append(messages, "user")
    /\ title_task' = IF is_first_message THEN "created" ELSE "none"
    /\ events' = Append(events, "stage1_start")
    /\ pc' = "s1_call"
    /\ UNCHANGED fanVars
    /\ UNCHANGED <<mode, is_first_message, stored_title, title_joined, stage,
                   stage1_results, stage2_results, stage3_result, chairman,
                   failed_at>>
    /\ UNCHANGED <<aggregate_rankings, stage3_args, req>>

\* storage.add_user_message raises in the generator
GenStartFails ==
    /\ mode = "stream"
    /\ pc = "gen_start"
    /\ RaiseAt("add_user")
    /\ UNCHANGED fanVars
    /\ UNCHANGED <<mode, is_first_message, events, messages, stored_title,
                   title_task, title_joined, stage, stage1_results,
                   stage2_results, stage3_result, chairman>>
    /\ UNCHANGED <<aggregate_rankings, stage3_args, req>>

\* a generator that stores the partial result after Stage 1
StreamStage1DoneSavesPartial ==
    /\ mode = "stream"
    /\ pc = "s1_ret"
    /\ messages' = Append(messages, "assistant")
    /\ events' = events \o <<"stage1_complete", "stage2_start">>
    /\ pc' = "s2_call"
    /\ UNCHANGED fanVars
    /\ UNCHANGED <<mode, is_first_message, stored_title, title_task,
                   title_joined, stage, stage1_results, stage2_results,
                   stage3_result, chairman, failed_at>>
    /\ UNCHANGED <<aggregate_rankings, stage3_args, req>>

\* `yield stage1_complete`, `yield stage2_start`
StreamStage1Done ==
    /\ mode = "stream"
    /\ pc = "s1_ret"
    /\ events' = events \o <<"stage1_complete", "stage2_start">>
    /\ pc' = "s2_call"
    /\ UNCHANGED fanVars
    /\ UNCHANGED <<mode, is_first_message, messages, stored_title, title_task,
                   title_joined, stage, stage1_results, stage2_results,
                   stage3_result, chairman, failed_at>>
    /\ UNCHANGED <<aggregate_rankings, stage3_args, req>>

\* a generator that calls Stage 3 without the rankings of Stage 2
StreamStage2DoneDropsRankings ==
    /\ mode = "stream"
    /\ pc = "s2_ret"
    /\ events' = events \o <<"stage2_complete", "stage3_start">>
    /\ pc' = "s3_call"
    /\ UNCHANGED fanVars
    /\ UNCHANGED <<mode, is_first_message, messages, stored_title, title_task,
                   title_joined, stage, stage1_results, stage2_results,
                   stage3_result, chairman, failed_at>>
    /\ aggregate_rankings' = calculate_aggregate_rankings(stage2_results)
    /\ stage3_args' = Stage3Args(stage1_results, <<>>)
    /\ UNCHANGED req

\* `yield stage2_complete`, `yield stage3_start`
StreamStage2Done ==
    /\ mode = "stream"
    /\ pc = "s2_ret"
    /\ events' = events \o <<"stage2_complete", "stage3_start">>
    /\ pc' = "s3_call"
    /\ UNCHANGED fanVars
    /\ UNCHANGED <<mode, is_first_message, messages, stored_title, title_task,
                   title_joined, stage, stage1_results, stage2_results,
                   stage3_result, chairman, failed_at>>
    /\ aggregate_rankings' = calculate_aggregate_rankings(stage2_results)
    /\ stage3_args' = Stage3Args(stage1_results, stage2_results)
    /\ UNCHANGED req

\* a generator that stores the assistant message before it joins the title task
StreamStage3DoneSavesEarly ==
    /\ mode = "stream"
    /\ pc = "s3_ret"
    /\ messages' = Append(messages, "assistant")
    /\ events' = Append(events, "stage3_complete")
    /\ pc' = IF title_task # "none" THEN "title_join" ELSE "add_assistant"
    /\ UNCHANGED fanVars
    /\ UNCHANGED <<mode, is_first_message, stored_title, title_task,
                   title_joined, stage, stage1_results, stage2_results,
                   stage3_result, chairman, failed_at>>
    /\ UNCHANGED <<aggregate_rankings, stage3_args, req>>

\* a generator that never joins the title task
StreamStage3DoneNoJoin ==
    /\ mode = "stream"
    /\ pc = "s3_ret"
    /\ events' = Append(events, "stage3_complete")
    /\ pc' = "add_assistant"
    /\ UNCHANGED fanVars
    /\ UNCHANGED <<mode, is_first_message, messages, stored_title, title_task,
                   title_joined, stage, stage1_results, stage2_results,
                   stage3_result, chairman, failed_at>>
    /\ UNCHANGED <<aggregate_rankings, stage3_args, req>>

\* `yield stage3_complete`, then `if title_task:`
StreamStage3Done ==
    /\ mode = "stream"
    /\ pc = "s3_ret"
    /\ events' = Append(events, "stage3_complete")
    /\ pc' = IF title_task # "none" THEN "title_join" ELSE "add_assistant"
    /\ UNCHANGED fanVars
    /\ UNCHANGED <<mode, is_first_message, messages, stored_title, title_task,
                   title_joined, stage, stage1_results, stage2_results,
                   stage3_result, chairman, failed_at>>
    /\ UNCHANGED <<aggregate_rankings, stage3_args, req>>

\* `title = await title_task`, the title is stored, `yield title_complete`
TitleJoin ==
    /\ mode = "stream"
    /\ pc = "title_join"
    /\ title_task = "returned"
    /\ title_joined' = TRUE
    /\ stored_title' = Append(stored_title, "title")
    /\ events' = Append(events, "title_complete")
    /\ pc' = "add_assistant"
    /\ UNCHANGED fanVars
    /\ UNCHANGED <<mode, is_first_message, messages, title_task, stage,
                   stage1_results, stage2_results, stage3_result, chairman,
                   failed_at>>
    /\ UNCHANGED <<aggregate_rankings, stage3_args, req>>

\* `await title_task` re-raises what the title call raised
TitleJoinRaises ==
    /\ mode = "stream"
    /\ pc = "title_join"
    /\ title_task = "raised"
    /\ title_joined' = TRUE
    /\ RaiseAt("title_join")
    /\ UNCHANGED fanVars
    /\ UNCHANGED <<mode, is_first_message, events, messages, stored_title,
                   title_task, stage, stage1_results, stage2_results,
                   stage3_result, chairman>>
    /\ UNCHANGED <<aggregate_rankings, stage3_args, req>>

\* storage.update_conversation_title raises in the generator
SetTitleFails ==
    /\ mode = "stream"
    /\ pc = "title_join"
    /\ title_task = "returned"
    /\ title_joined' = TRUE
    /\ RaiseAt("set_title")
    /\ UNCHANGED fanVars
    /\ UNCHANGED <<mode, is_first_message, events, messages, stored_title,
                   title_task, stage, stage1_results, stage2_results,
                   stage3_result, chairman>>
    /\ UNCHANGED <<aggregate_rankings, stage3_args, req>>

\* storage.add_assistant_message, then `yield complete`
AddAssistant ==
    /\ mode = "stream"
    /\ pc = "add_assistant"
    /\ messages' = Append(messages, "assistant")
    /\ events' = Append(events, "complete")
    /\ pc' = "done"
    /\ UNCHANGED fanVars
    /\ UNCHANGED <<mode, is_first_message, stored_title, title_task,
                   title_joined, stage, stage1_results, stage2_results,
                   stage3_result, chairman, failed_at>>
    /\ UNCHANGED <<aggregate_rankings, stage3_args, req>>

\* storage.add_assistant_message raises in the generator
AddAssistantFails ==
    /\ mode = "stream"
    /\ pc = "add_assistant"
    /\ RaiseAt("add_assistant")
    /\ UNCHANGED fanVars
    /\ UNCHANGED <<mode, is_first_message, events, messages, stored_title,
                   title_task, title_joined, stage, stage1_results,
                   stage2_results, stage3_result, chairman>>
    /\ UNCHANGED <<aggregate_rankings, stage3_args, req>>

\* a generator whose except clause goes on to `yield complete`
StreamExceptThenComplete ==
    /\ mode = "stream"
    /\ pc = "except"
    /\ events' = events \o <<"error", "complete">>
    /\ pc' = "done"
    /\ UNCHANGED fanVars
    /\ UNCHANGED <<mode, is_first_message, messages, stored_title, title_task,
                   title_joined, stage, stage1_results, stage2_results,
                   stage3_result, chairman, failed_at>>
    /\ UNCHANGED <<aggregate_rankings, stage3_args, req>>

\* `except Exception as e:` ... `yield error`
StreamExcept ==
    /\ mode = "stream"
    /\ pc = "except"
    /\ events' = Append(events, "error")
    /\ pc' = "done"
    /\ UNCHANGED fanVars
    /\ UNCHANGED <<mode, is_first_message, messages, stored_title, title_task,
                   title_joined, stage, stage1_results, stage2_results,
                   stage3_result, chairman, failed_at>>
    /\ UNCHANGED <<aggregate_rankings, stage3_args, req>>

-----------------------------------------------------------------------------
(* send_message *)

\* a send_message that starts the council without the title
SendMessageNoTitleWait ==
    /\ pc = "idle"
    /\ mode' = "blocking"
    /\ IF messages = NoConversation
       THEN pc' = "http_404" /\ UNCHANGED <<is_first_message, messages>>
       ELSE /\ is_first_message' = (Len(messages) = 0)
            /\ messages' = Append(messages, "user")
            /\ pc' = "s1_call"
    /\ UNCHANGED fanVars
    /\ UNCHANGED <<events, stored_title, title_task, title_joined, stage,
                   stage1_results, stage2_results, stage3_result, chairman,
                   failed_at>>
    /\ UNCHANGED <<aggregate_rankings, stage3_args, req>>

\* the handler up to storage.add_user_message
SendMessage ==
    /\ pc = "idle"
    /\ mode' = "blocking"
    /\ IF messages = NoConversation
       THEN pc' = "http_404" /\ UNCHANGED <<is_first_message, messages>>
       ELSE /\ is_first_message' = (Len(messages) = 0)
            /\ messages' = Append(messages, "user")
            /\ pc' = IF Len(messages) = 0 THEN "title_call" ELSE "s1_call"
    /\ UNCHANGED fanVars
    /\ UNCHANGED <<events, stored_title, title_task, title_joined, stage,
                   stage1_results, stage2_results, stage3_result, chairman,
                   failed_at>>
    /\ UNCHANGED <<aggregate_rankings, stage3_args, req>>

\* storage.add_user_message raises in send_message
SendMessageFails ==
    /\ pc = "idle"
    /\ messages # NoConversation
    /\ mode' = "blocking"
    /\ is_first_message' = (Len(messages) = 0)
    /\ RaiseAt("add_user")
    /\ UNCHANGED fanVars
    /\ UNCHANGED <<events, messages, stored_title, title_task, title_joined,
                   stage, stage1_results, stage2_results, stage3_result,
                   chairman>>
    /\ UNCHANGED <<aggregate_rankings, stage3_args, req>>

\* `title = await generate_conversation_title(request.content)` is entered
BlockingTitleCall ==
    /\ mode = "blocking"
    /\ pc = "title_call"
    /\ title_task' = "pending"
    /\ pc' = "title_wait"
    /\ UNCHANGED fanVars
    /\ UNCHANGED <<mode, is_first_message, events, messages, stored_title,
                   title_joined, stage, stage1_results, stage2_results,
                   stage3_result, chairman, failed_at>>
    /\ UNCHANGED <<aggregate_rankings, stage3_args, req>>

\* the awaited title call returns and the title is stored
BlockingTitleDone ==
    /\ mode = "blocking"
    /\ pc = "title_wait"
    /\ title_task = "returned"
    /\ title_joined' = TRUE
    /\ stored_title' = Append(stored_title, "title")
    /\ pc' = "s1_call"
    /\ UNCHANGED fanVars
    /\ UNCHANGED <<mode, is_first_message, events, messages, title_task, stage,
                   stage1_results, stage2_results, stage3_result, chairman,
                   failed_at>>
    /\ UNCHANGED <<aggregate_rankings, stage3_args, req>>

\* the awaited title call raises, or storing the title does
BlockingTitleFails ==
    /\ mode = "blocking"
    /\ pc = "title_wait"
    /\ title_task \in {"returned", "raised"}
    /\ title_joined' = TRUE
    /\ RaiseAt(IF title_task = "raised" THEN "title_join" ELSE "set_title")
    /\ UNCHANGED fanVars
    /\ UNCHANGED <<mode, is_first_message, events, messages, stored_title,
                   title_task, stage, stage1_results, stage2_results,
                   stage3_result, chairman>>
    /\ UNCHANGED <<aggregate_rankings, stage3_args, req>>

\* run_full_council goes from one stage to the next
BlockingNextStage ==
    /\ mode = "blocking"
    /\ pc \in {"s1_ret", "s2_ret"}
    /\ pc' = IF pc = "s1_ret" THEN "s2_call" ELSE "s3_call"
    /\ UNCHANGED fanVars
    /\ UNCHANGED <<mode, is_first_message, events, messages, stored_title,
                   title_task, title_joined, stage, stage1_results,
                   stage2_results, stage3_result, chairman, failed_at>>
    /\ IF pc = "s2_ret"
       THEN /\ aggregate_rankings' = calculate_aggregate_rankings(stage2_results)
            /\ stage3_args' = Stage3Args(stage1_results, stage2_results)
       ELSE UNCHANGED <<aggregate_rankings, stage3_args>>
    /\ UNCHANGED req

\* storage.add_assistant_message, then the response is returned
BlockingRespond ==
    /\ mode = "blocking"
    /\ pc = "s3_ret"
    /\ messages' = Append(messages, "assistant")
    /\ pc' = "responded"
    /\ UNCHANGED fanVars
    /\ UNCHANGED <<mode, is_first_message, events, stored_title, title_task,
                   title_joined, stage, stage1_results, stage2_results,
                   stage3_result, chairman, failed_at>>
    /\ UNCHANGED <<aggregate_rankings, stage3_args, req>>

\* storage.add_assistant_message raises in send_message
BlockingRespondFails ==
    /\ mode = "blocking"
    /\ pc = "s3_ret"
    /\ RaiseAt("add_assistant")
    /\ UNCHANGED fanVars
    /\ UNCHANGED <<mode, is_first_message, events, messages, stored_title,
                   title_task, title_joined, stage, stage1_results,
                   stage2_results, stage3_result, chairman>>
    /\ UNCHANGED <<aggregate_rankings, stage3_args, req>>

\* a send_message that swallows the exception and answers
BlockingPropagateSwallowed ==
    /\ mode = "blocking"
    /\ pc = "except"
    /\ pc' = "responded"
    /\ UNCHANGED fanVars
    /\ UNCHANGED <<mode, is_first_message, events, messages, stored_title,
                   title_task, title_joined, stage, stage1_results,
                   stage2_results, stage3_result, chairman, failed_at>>
    /\ UNCHANGED <<aggregate_rankings, stage3_args, req>>

\* nothing in send_message catches: the exception reaches the HTTP layer
BlockingPropagate ==
    /\ mode = "blocking"
    /\ pc = "except"
    /\ pc' = "raised"
    /\ UNCHANGED fanVars
    /\ UNCHANGED <<mode, is_first_message, events, messages, stored_title,
                   title_task, title_joined, stage, stage1_results,
                   stage2_results, stage3_result, chairman, failed_at>>
    /\ UNCHANGED <<aggregate_rankings, stage3_args, req>>

-----------------------------------------------------------------------------
(* Specifications *)

RunIdle ==
    /\ mode = "none"
    /\ is_first_message = FALSE
    /\ pc = "idle"
    /\ events = <<>>
    /\ stored_title = <<>>
    /\ title_task = "none"
    /\ title_joined = FALSE
    /\ stage = 0
    /\ stage1_results = <<>>
    /\ stage2_results = <<>>
    /\ stage3_result = "unset"
    /\ chairman = "idle"
    /\ failed_at = "none"
    /\ aggregate_rankings = <<>>
    /\ stage3_args = NoArgs

\* one request to one conversation
Init ==
    /\ FanIdle
    /\ RunIdle
    /\ req = <<>>
    /\ messages \in StoredConversations

Next ==
    \/ SendMessageStream \/ GenStart \/ GenStartFails
    \/ StreamStage1Done \/ StreamStage2Done \/ StreamStage3Done
    \/ TitleJoin \/ TitleJoinRaises \/ SetTitleFails
    \/ AddAssistant \/ AddAssistantFails \/ StreamExcept
    \/ SendMessage \/ SendMessageFails
    \/ BlockingTitleCall \/ BlockingTitleDone \/ BlockingTitleFails
    \/ BlockingNextStage \/ BlockingRespond \/ BlockingRespondFails
    \/ BlockingPropagate
    \/ Stage1Call \/ Stage1Return \/ Stage2Call \/ Stage2Skip \/ Stage2Return
    \/ Stage3Call \/ (\E o \in FanOutOutcomes : Stage3Return(o)) \/ StageRaises
    \/ TitleStart \/ TitleReturns \/ TitleRaises
    \/ (\E i \in Idx : QueryModelStart(i))
    \/ (\E i \in Idx, o \in FanOutOutcomes : QueryModelDone(i, o))
    \/ GatherDone

Spec == Init /\ [][Next]_vars

\* the event loop keeps running what is ready: every gateway call ends, every
\* storage call returns or raises, and the events are consumed
SpecLive == Init /\ [][Next]_vars /\ WF_vars(Next)

\* query_models_parallel alone, on every list of models
InitFanOut ==
    /\ FanIdle
    /\ RunIdle
    /\ req = <<>>
    /\ messages = <<>>

\* query_models_parallel is called from outside the handlers
Dispatch(ms) ==
    /\ QmpCall(ms)
    /\ UNCHANGED runVars

NextFanOut ==
    \/ (\E ms \in ModelLists : Dispatch(ms))
    \/ (\E i \in Idx : QueryModelStart(i))
    \/ (\E i \in Idx, o \in FanOutOutcomes : QueryModelDone(i, o))
    \/ GatherDone

SpecFanOut == InitFanOut /\ [][NextFanOut]_vars

\* one call, and two concurrent calls, on every provider outcome
GatewayLists == {<<"m1">>, <<"m1", "m2">>}

NextGateway ==
    \/ (\E ms \in GatewayLists : Dispatch(ms))
    \/ (\E i \in Idx : QueryModelStart(i))
    \/ (\E i \in Idx, o \in ProviderOutcomes : QueryModelDone(i, o))
    \/ GatherDone

SpecGateway == InitFanOut /\ [][NextGateway]_vars

-----------------------------------------------------------------------------
(* Concurrent requests to one conversation *)

\* number of requests sent to the conversation
NumRequests == 2

Requests == 1..NumRequests

IdleRequest == [mode |-> "none", pc |-> "idle", is_first_message |-> FALSE]

\* everything of a request but the store and the requests' own positions
raceFrame == <<fanVars, mode, is_first_message, pc, events, title_task,
               title_joined, stage, stage1_results, stage2_results,
               stage3_result, chairman, failed_at, aggregate_rankings,
               stage3_args>>

\* send_message_stream reads the conversation and returns the StreamingResponse
RaceSendMessageStream(r) ==
    /\ req[r].pc = "idle"
    /\ req' = [req EXCEPT ![r] = [mode |-> "stream", pc |-> "gen_start",
                                  is_first_message |-> (Len(messages) = 0)]]
    /\ UNCHANGED <<messages, stored_title, raceFrame>>

\* event_generator starts: the user message is stored
RaceGenStart(r) ==
    /\ req[r].mode = "stream"
    /\ req[r].pc = "gen_start"
    /\ messages' = Append(messages, "user")
    /\ req' = [req EXCEPT ![r].pc = "stages"]
    /\ UNCHANGED <<stored_title, raceFrame>>

\* the stages are over; `if title_task:` the title is awaited and stored
RaceTitleJoin(r) ==
    /\ req[r].mode = "stream"
    /\ req[r].pc = "stages"
    /\ stored_title' = IF req[r].is_first_message
                       THEN Append(stored_title, "title") ELSE stored_title
    /\ req' = [req EXCEPT ![r].pc = "add_assistant"]
    /\ UNCHANGED <<messages, raceFrame>>

\* event_generator stores the assistant message and yields complete
RaceAddAssistant(r) ==
    /\ req[r].mode = "stream"
    /\ req[r].pc = "add_assistant"
    /\ messages' = Append(messages, "assistant")
    /\ req' = [req EXCEPT ![r].pc = "done"]
    /\ UNCHANGED <<stored_title, raceFrame>>

\* send_message reads the conversation and stores the user message at once
RaceSendMessage(r) ==
    /\ req[r].pc = "idle"
    /\ messages' = Append(messages, "user")
    /\ req' = [req EXCEPT ![r] = [mode |-> "blocking",
                                  pc |-> IF Len(messages) = 0 THEN "title_wait"
                                         ELSE "council",
                                  is_first_message |-> (Len(messages) = 0)]]
    /\ UNCHANGED <<stored_title, raceFrame>>

\* send_message: the awaited title call returns and the title is stored
RaceBlockingTitleDone(r) ==
    /\ req[r].mode = "blocking"
    /\ req[r].pc = "title_wait"
    /\ stored_title' = Append(stored_title, "title")
    /\ req' = [req EXCEPT ![r].pc = "council"]
    /\ UNCHANGED <<messages, raceFrame>>

\* send_message: run_full_council returns, the assistant message is stored
RaceBlockingRespond(r) ==
    /\ req[r].mode = "blocking"
    /\ req[r].pc = "council"
    /\ messages' = Append(messages, "assistant")
    /\ req' = [req EXCEPT ![r].pc = "responded"]
    /\ UNCHANGED <<stored_title, raceFrame>>

\* an empty conversation, and requests not yet received
InitRace ==
    /\ FanIdle
    /\ RunIdle
    /\ messages = <<>>
    /\ req = [r \in Requests |-> IdleRequest]

NextRace ==
    \/ (\E r \in Requests : RaceSendMessageStream(r))
    \/ (\E r \in Requests : RaceGenStart(r))
    \/ (\E r \in Requests : RaceTitleJoin(r))
    \/ (\E r \in Requests : RaceAddAssistant(r))
    \/ (\E r \in Requests : RaceSendMessage(r))
    \/ (\E r \in Requests : RaceBlockingTitleDone(r))
    \/ (\E r \in Requests : RaceBlockingRespond(r))

SpecRace == InitRace /\ [][NextRace]_vars

-----------------------------------------------------------------------------
(* Properties *)

IsPrefix(p, q) == Len(p) <= Len(q) /\ \A k \in 1..Len(p) : p[k] = q[k]

Count(seq, e) == Cardinality({k \in 1..Len(seq) : seq[k] = e})

Has(seq, e) == \E k \in 1..Len(seq) : seq[k] = e

Distinct(seq) == \A j, k \in 1..Len(seq) : j # k => seq[j] # seq[k]

Ended(i) == tasks[i] \in {"returned", "raised"}

\* C1: a streaming run in which nothing raises yields, in this order and once
\* each, stage1_start, stage1_complete, stage2_start, stage2_complete,
\* stage3_start, stage3_complete, title_complete exactly when the message was
\* the first of its conversation, and complete as the last event.
C1_SuccessSequence ==
    (mode = "stream" /\ failed_at = "none") =>
        /\ IsPrefix(events, SuccessEvents(is_first_message))
        /\ pc = "done" => events = SuccessEvents(is_first_message)

C1_Witness ==
    /\ mode = "stream"
    /\ pc = "done"
    /\ failed_at = "none"
    /\ is_first_message
    /\ events = SuccessEvents(TRUE)

\* C2: a streaming run in which a step raised ends with exactly one error
\* event, which is its last event; it holds no complete event, and the events
\* before the error are a prefix of the sequence of a successful run.
C2_SingleTerminalError ==
    /\ (mode = "stream" /\ pc = "done" /\ failed_at # "none") => Has(events, "error")
    /\ Has(events, "error") =>
        /\ Count(events, "error") = 1
        /\ events[Len(events)] = "error"
        /\ ~Has(events, "complete")
        /\ IsPrefix(SubSeq(events, 1, Len(events) - 1),
                    SuccessEvents(is_first_message))

C2_Witness ==
    /\ mode = "stream"
    /\ pc = "done"
    /\ failed_at = "set_title"
    /\ events = <<"stage1_start", "stage1_complete", "stage2_start",
                  "stage2_complete", "stage3_start", "stage3_complete", "error">>

\* C3: for a list of N distinct model ids the mapping query_models_parallel
\* returns has exactly N entries, whose keys are in the order of the list,
\* whatever the order in which the calls completed and whichever calls failed.
C3_OrderPreserved ==
    (gather = "returned" /\ Distinct(models)) =>
        /\ Len(result) = Len(models)
        /\ Keys(result) = models

C3_Witness ==
    /\ gather = "returned"
    /\ models = <<"m2", "m1">>
    /\ order = <<2, 1>>
    /\ ret[1] = None
    /\ ret[2] = Dict("answer")
    /\ Keys(result) = <<"m2", "m1">>

\* C4: query_models_parallel has returned (or raised) only when every one of
\* its gateway calls has ended.
C4_AllCompleteBarrier ==
    gather \in {"returned", "raised"} => \A i \in Idx : Ended(i)

C4_Witness ==
    /\ gather = "returned"
    /\ Len(models) = 2
    /\ ret[1] = None
    /\ ret[2] # None
    /\ \A i \in Idx : Ended(i)

\* C5: each call's result is set once and is the outcome of that call alone;
\* the entry returned for a model is the outcome of its own call; and a pending
\* call can end whatever the state of its siblings.
C5_SiblingIndependence ==
    /\ \A i \in Idx :
        /\ writes[i] = (IF Ended(i) THEN 1 ELSE 0)
        /\ Ended(i) => ret[i] = query_model(own[i])
        /\ ~Ended(i) => ret[i] = NoRet
        /\ tasks[i] = "pending" =>
               ENABLED (\E o \in FanOutOutcomes : QueryModelDone(i, o))
    /\ gather = "returned" =>
        /\ \A i \in Idx : responses[i] = query_model(own[i])
        /\ Distinct(models) =>
               \A i \in Idx : result[i] = [key |-> models[i],
                                           value |-> query_model(own[i])]

C5_Witness ==
    /\ gather = "returned"
    /\ Len(models) = 2
    /\ Distinct(models)
    /\ order = <<2, 1>>
    /\ own[1] = Timeout
    /\ own[2] = Response(200, "text")
    /\ result[2].value = Dict("answer")

\* the provider outcomes C6 calls failures
C6_FailureOutcome(o) ==
    \/ o.kind \in {"transport_error", "timeout"}
    \/ o.kind = "response" /\ ~(o.status \in 200..299)
    \/ o.kind = "response" /\ o.body \in {"unparseable", "no_choices",
                                           "empty_choices", "no_message",
                                           "no_content"}

\* C6: query_model returns None whenever the status is not 2xx, the transport
\* fails, the timeout elapses or the body holds no usable answer (no choices,
\* or no message content).
C6_FailureReturnsNone ==
    \A i \in Idx :
        (Ended(i) /\ C6_FailureOutcome(own[i])) => ret[i] = None

\* C7: whatever the provider does, query_model ends by returning a value, and
\* query_models_parallel does not raise.
C7_NeverRaises ==
    /\ \A i \in Idx : tasks[i] # "raised" /\ ret[i].tag # "raise"
    /\ gather # "raised"

C7_Witness ==
    /\ gather = "returned"
    /\ Len(models) = 2
    /\ own[1] = Response(200, "unparseable")
    /\ own[2] = TransportError
    /\ ret[1] = None
    /\ ret[2] = None

\* the provider answered 2xx with a first choice whose content is ""
EmptyAnswer(o) ==
    o.kind = "response" /\ o.status \in 200..299 /\ o.body = "empty_content"

\* C8: a 2xx answer whose first message content is "" makes query_model return
\* a result with content "", and the dispatcher counts that call as a success.
C8_EmptyContentSucceeds ==
    /\ \A i \in Idx : (Ended(i) /\ EmptyAnswer(own[i])) => ret[i] = Dict("")
    /\ gather = "returned" =>
           success_count >= Cardinality({i \in Idx : EmptyAnswer(own[i])})

C8_Witness ==
    /\ gather = "returned"
    /\ Len(models) = 2
    /\ EmptyAnswer(own[1])
    /\ EmptyAnswer(own[2])
    /\ success_count = 2

\* a Stage 1 gateway call exists or has existed
Stage1Dispatched == pc = "s1_wait" \/ stage >= 1

\* the assistant message of this request is stored
AssistantStored == Len(messages) >= 2 /\ pc \in {"done", "responded"}

\* C9: in a streaming run for a first message the title task exists before any
\* Stage 1 gateway call, is awaited only after stage3_complete was yielded, and
\* the title is stored before the assistant message; for a later message there
\* is no title task and no title_complete event.
C9_TitleTaskLifecycle ==
    mode = "stream" =>
        /\ (is_first_message /\ Stage1Dispatched) => title_task # "none"
        /\ (pc = "title_join" \/ title_joined) => Has(events, "stage3_complete")
        /\ (is_first_message /\ AssistantStored) => stored_title = <<"title">>
        /\ ~is_first_message =>
               title_task = "none" /\ ~Has(events, "title_complete")

C9_Witness ==
    /\ mode = "stream"
    /\ is_first_message
    /\ pc = "done"
    /\ title_joined
    /\ stored_title = <<"title">>
    /\ messages = <<"user", "assistant">>
    /\ Has(events, "title_complete")

\* the handler is waiting for the title call, or has waited for it
TitleAwaited == pc \in {"title_wait", "title_join"} \/ title_joined

\* C10 as stated: in blocking and in streaming mode alike the handler waits for
\* the title call only once Stage 3 has completed.
C10_JoinAfterStage3InEveryMode ==
    TitleAwaited => stage = 3

\* C10, amended: in streaming mode the handler waits for the title call only
\* after Stage 3 and before the assistant message is stored, so Stage 1 runs
\* while the title call is pending; in blocking mode the title call has ended
\* and the title is stored before Stage 1 starts.
C10_TitleConcurrencyByMode ==
    /\ mode = "stream" =>
        /\ TitleAwaited => stage = 3
        /\ (is_first_message /\ Stage1Dispatched) => title_task # "none"
        /\ (is_first_message /\ AssistantStored) => title_joined
    /\ (mode = "blocking" /\ is_first_message) =>
        /\ pc \in {"s1_call", "s1_wait"} \/ stage >= 1 =>
               /\ title_task = "returned"
               /\ title_joined
               /\ stored_title = <<"title">>
        /\ pc = "title_wait" => stage = 0 /\ tasks = <<>>

C10_Witness ==
    /\ mode = "stream"
    /\ is_first_message
    /\ pc = "s1_wait"
    /\ title_task = "pending"
    /\ \E i \in Idx : tasks[i] = "pending"

\* a council gateway call of the running stage has not ended
CouncilCallOpen == \E i \in Idx : ~Ended(i)

\* C11: while a council gateway call is open the handler waits inside that
\* call's stage: Stage 2 calls exist only once Stage 1 has returned with every
\* call ended, the chairman is called only once Stage 2 has returned, and no
\* council call is open then; the title call is the only one that overlaps.
C11_StagesStrictlyOrdered ==
    /\ CouncilCallOpen =>
        /\ gather = "waiting"
        /\ pc \in {"s1_wait", "s2_wait"}
        /\ chairman = "idle"
    /\ pc \in {"s1_call", "s1_wait"} => stage = 0 /\ chairman = "idle"
    /\ pc \in {"s2_call", "s2_wait"} => stage = 1 /\ chairman = "idle"
    /\ chairman = "pending" => stage = 2 /\ tasks = <<>> /\ pc = "s3_wait"

C11_Witness ==
    /\ pc = "s2_wait"
    /\ stage = 1
    /\ tasks = <<"returned", "pending">>
    /\ title_task = "pending"

\* the conversation as the request found it
InitialMessages == IF is_first_message THEN <<>> ELSE <<"user", "assistant">>

\* a request is running on an existing conversation
Running == mode # "none" /\ messages # NoConversation

\* writes this run made to the conversation store
StoreWrites == (Len(messages) - Len(InitialMessages)) + Len(stored_title)

\* C12 as stated: the run writes the store once at most, and that write is the
\* append of the assistant message after Stage 3.
C12_OnlyFinalAppend ==
    Running =>
        /\ StoreWrites <= 1
        /\ StoreWrites = 1 =>
               stage = 3 /\ messages = InitialMessages \o <<"assistant">>

\* C12, amended: a run writes the store by appending the user message at its
\* start, by storing the title of a first message (once at most), and by
\* appending the assistant message, once at most, after all three stages and
\* as its last write.
C12_StoreWritesOfARun ==
    Running =>
        /\ messages \in {InitialMessages,
                         InitialMessages \o <<"user">>,
                         InitialMessages \o <<"user", "assistant">>}
        /\ Len(stored_title) <= (IF is_first_message THEN 1 ELSE 0)
        /\ messages = InitialMessages \o <<"user", "assistant">> =>
               /\ stage = 3
               /\ pc \in {"done", "responded"}
               /\ is_first_message => stored_title = <<"title">>
        /\ (pc \in {"done", "responded"} /\ failed_at = "none") =>
               messages = InitialMessages \o <<"user", "assistant">>

C12_Witness ==
    /\ mode = "stream"
    /\ pc = "done"
    /\ is_first_message
    /\ failed_at = "none"
    /\ messages = <<"user", "assistant">>
    /\ stored_title = <<"title">>
    /\ StoreWrites = 3

\* C13: a streaming run stores the assistant message exactly when it ends
\* without a failure, after Stage 3 and the title join; a run ended by an error
\* from a stage or from the title has stored the user message and nothing more.
C13_AssistantStoredIffNoFailure ==
    (mode = "stream" /\ messages # NoConversation) =>
        /\ messages = InitialMessages \o <<"user", "assistant">> =>
               /\ stage = 3
               /\ failed_at = "none"
               /\ is_first_message => title_joined
        /\ pc = "done" =>
               (messages = InitialMessages \o <<"user", "assistant">>
                    <=> failed_at = "none")
        /\ (Has(events, "error") /\ failed_at \in {"stage1", "stage2", "stage3",
                                                   "title_join", "set_title"}) =>
               messages = InitialMessages \o <<"user">>

C13_Witness ==
    /\ mode = "stream"
    /\ pc = "done"
    /\ failed_at = "title_join"
    /\ stage = 3
    /\ events[Len(events)] = "error"
    /\ messages = <<"user">>

\* C14: send_message answers only after Stage 3 and with the assistant message
\* stored; when the council run raises, the exception reaches the caller, no
\* answer is returned and the assistant message is not stored.
C14_BlockingResponseOrRaise ==
    mode = "blocking" =>
        /\ pc = "responded" =>
               /\ stage = 3
               /\ failed_at = "none"
               /\ messages = InitialMessages \o <<"user", "assistant">>
        /\ failed_at \in {"stage1", "stage2", "stage3"} =>
               /\ pc \in {"except", "raised"}
               /\ messages = InitialMessages \o <<"user">>
        /\ pc = "raised" => failed_at # "none"

C14_Witness ==
    /\ mode = "blocking"
    /\ pc = "raised"
    /\ failed_at = "stage2"
    /\ stage = 1
    /\ messages = <<"user">>

\* every value of a returned mapping is a per-model failure
AllFailed(rs) == rs # <<>> /\ \A j \in 1..Len(rs) : rs[j].value = None

\* C15: no gateway call of a stage makes the stage raise, whatever the calls
\* returned, and a streaming run in which nothing raised holds no error event
\* and ends with the three stage results and complete.
C15_PerModelFailuresTolerated ==
    /\ (pc = "except" /\ failed_at \in {"stage1", "stage2", "stage3"}) =>
           gather = "idle" /\ tasks = <<>> /\ chairman = "idle"
    /\ (mode = "stream" /\ failed_at = "none") =>
        /\ ~Has(events, "error")
        /\ pc = "done" =>
               /\ Has(events, "stage1_complete")
               /\ Has(events, "stage2_complete")
               /\ Has(events, "stage3_complete")
               /\ events[Len(events)] = "complete"

C15_Witness ==
    /\ mode = "stream"
    /\ pc = "done"
    /\ AllFailed(stage1_results)
    /\ stage3_result = "unavailable"
    /\ events[Len(events)] = "complete"
    /\ ~Has(events, "error")

\* Stage 3 has been called
Stage3Called == pc \in {"s3_call", "s3_wait", "s3_ret"} \/ stage = 3

\* C16 as stated: in a streaming run Stage 3 is called with the aggregate
\* rankings that stage2_complete carried.
C16_AggregateGivenToStage3 ==
    (mode = "stream" /\ Stage3Called) =>
        /\ "aggregate_rankings" \in DOMAIN stage3_args
        /\ stage3_args.aggregate_rankings = aggregate_rankings

\* C16, amended: in a streaming run Stage 3 is called with the question, the
\* Stage 1 answers and the Stage 2 rankings of that run; the aggregate computed
\* from those rankings is carried by stage2_complete and is no argument of
\* Stage 3.
C16_Stage3GetsRankingsNotAggregate ==
    (mode = "stream" /\ Stage3Called) =>
        /\ stage3_args = Stage3Args(stage1_results, stage2_results)
        /\ DOMAIN stage3_args = {"question", "stage1", "stage2"}
        /\ aggregate_rankings = calculate_aggregate_rankings(stage2_results)
        /\ Has(events, "stage2_complete")

C16_Witness ==
    /\ mode = "stream"
    /\ chairman = "pending"
    /\ stage2_results # <<>>
    /\ aggregate_rankings # <<>>
    /\ stage3_args.stage2 = stage2_results

\* C18: when a streaming run has ended, by complete or by error, the title
\* task it created has been awaited.
C18_TitleTaskJoinedAtEnd ==
    (mode = "stream" /\ pc = "done" /\ title_task # "none") => title_joined

\* the terminal events a stream has yielded
TerminalEvents == Count(events, "complete") + Count(events, "error")

\* C17: a streaming run yields one terminal event at most, and, the gateway
\* and storage calls all ending, every run that started its generator
\* eventually has yielded exactly one and has ended.
C17_StreamTerminates ==
    /\ [](TerminalEvents <= 1)
    /\ (mode = "stream" /\ pc = "gen_start") ~>
           (pc = "done" /\ TerminalEvents = 1
                /\ events[Len(events)] \in {"complete", "error"})

C17_Witness ==
    /\ mode = "stream"
    /\ pc = "done"
    /\ failed_at = "add_assistant"
    /\ TerminalEvents = 1
    /\ events[Len(events)] = "error"

\* C19: of the requests sent concurrently to one empty conversation at most
\* one takes its message for the first, and the title is stored once at most.
C19_SingleFirstMessage ==
    /\ Cardinality({r \in DOMAIN req : req[r].is_first_message}) <= 1
    /\ Len(stored_title) <= 1

====
